---- MODULE Spec2Model ----
(***************************************************************************)
(* Model of src/nginx_parser.cpp: the tokenizer (token::parse), the        *)
(* grouper (token::parseGroups) and the block builder                      *)
(* (config::parse_block), run one after the other as main does.            *)
(*                                                                         *)
(* A std::string is a sequence of one-character strings, an iterator is    *)
(* an index into its sequence (Len + 1 is end()), a Token * is a record    *)
(* with a "type" field, and a Block * is a sequence of length 0 (the null  *)
(* pointer) or 1 (a pointer to that Block).                                *)
(***************************************************************************)
EXTENDS Integers, Sequences, FiniteSets, TLC

\* Longest input text of Spec and longest hand-built token vector of SpecTokens.
MaxLen == 5
MaxTokens == 6

\* The characters input texts are made of: two ordinary characters and
\* every character the tokenizer treats specially.
Chars == {"a", "b", " ", "\t", "\n", "#", ";", "{", "}"}

Texts == UNION {[1..n -> Chars] : n \in 0..MaxLen}

VARIABLES
    text,      \* main: std::string input
    input,     \* token::parse: the cursor into text
    tokens,    \* token::parse: output, then main's Tokens tokens
    word,      \* main: Token *t of the lone parseWord call
    ginput,    \* token::parseGroups: the cursor into tokens
    outputs,   \* token::parseGroups: output of every active call, innermost last
    grouped,   \* main: g.content
    rest,      \* main: g.rest (0 until the top-level call returned)
    frames,    \* config::parse_block: locals of every active call, innermost last
    block,     \* main: config::Block *b
    pc,        \* where main is
    error      \* the exception that ended main, if any

vars == <<text, input, tokens, word, ginput, outputs, grouped, rest, frames, block, pc, error>>

(***************************************************************************)
(* Tokens                                                                  *)
(***************************************************************************)
Null == [type |-> "null"]
Semicolon == [type |-> "Semicolon"]
OpeningBrace == [type |-> "OpeningBrace"]
ClosingBrace == [type |-> "ClosingBrace"]
String(content) == [type |-> "String", content |-> content]
Group(content) == [type |-> "Group", content |-> content]

\* what() of the exceptions the program throws
NoError == "none"
NoMatchingClosingBrace == "No matching closing curly brace"
DirectiveUnexpectedEnd == "parse_block: directive: unexpected end of input"
UnexpectedEnd == "unexpected end of input"
ExpectedSemicolonOrBrace == "parse_block: directive: expected ; or {"
BadCast == "std::bad_cast"

(***************************************************************************)
(* Tokenizer                                                               *)
(***************************************************************************)
RECURSIVE skipComment(_, _)
skipComment(s, i) ==
    IF i = Len(s) + 1 THEN i
    ELSE IF s[i] = "\n" THEN i
    ELSE skipComment(s, i + 1)

\* The loop without the test for '\t'.
RECURSIVE skipWhitespaceNoTab(_, _)
skipWhitespaceNoTab(s, i) ==
    IF i = Len(s) + 1 THEN i
    ELSE IF s[i] = " " \/ s[i] = "\n" THEN skipWhitespaceNoTab(s, i + 1)
    ELSE IF s[i] = "#" THEN
        LET j == skipComment(s, i + 1)
        IN  IF j = Len(s) + 1 THEN j ELSE skipWhitespaceNoTab(s, j + 1)
    ELSE i

RECURSIVE skipWhitespace(_, _)
skipWhitespace(s, i) ==
    IF i = Len(s) + 1 THEN i
    ELSE IF s[i] = " " \/ s[i] = "\t" \/ s[i] = "\n" THEN skipWhitespace(s, i + 1)
    ELSE IF s[i] = "#" THEN
        LET j == skipComment(s, i + 1)
        IN  IF j = Len(s) + 1 THEN j ELSE skipWhitespace(s, j + 1)
    ELSE i

\* The switch of parseWord without its case '#'.
WordEndNoHash == {" ", "\t", "\n", ";", "{", "}"}

\* Characters that end the string loop of parseWord.
WordEnd == {" ", "\t", "\n", "#", ";", "{", "}"}

\* The for (;;) loop of parseWord: string is the std::string built so far.
RECURSIVE parseString(_, _, _)
parseString(s, i, string) ==
    IF i = Len(s) + 1 THEN [token |-> String(string), input |-> i]
    ELSE IF s[i] \in WordEnd THEN [token |-> String(string), input |-> i]
    ELSE parseString(s, i + 1, Append(string, s[i]))

\* parseWord(input, end): the token returned and the cursor left in input.
parseWord(s, i) ==
    IF i = Len(s) + 1 THEN [token |-> Null, input |-> i]
    ELSE IF s[i] = ";" THEN [token |-> Semicolon, input |-> i + 1]
    ELSE IF s[i] = "{" THEN [token |-> OpeningBrace, input |-> i + 1]
    ELSE IF s[i] = "}" THEN [token |-> ClosingBrace, input |-> i + 1]
    ELSE parseString(s, i, <<>>)

Init ==
    /\ text \in Texts
    /\ input = 1
    /\ tokens = <<>>
    /\ word = Null
    /\ ginput = 0
    /\ outputs = <<>>
    /\ grouped = <<>>
    /\ rest = 0
    /\ frames = <<>>
    /\ block = <<>>
    /\ pc = "parse"
    /\ error = NoError

\* The iteration without the test if (word).
ParseStepPushesNull ==
    /\ pc = "parse"
    /\ input # Len(text) + 1
    /\ LET w == parseWord(text, skipWhitespace(text, input))
       IN  /\ input' = w.input
           /\ tokens' = Append(tokens, w.token)
    /\ UNCHANGED <<text, word, ginput, outputs, grouped, rest, frames, block, pc, error>>

\* One iteration of the loop of token::parse.
ParseStep ==
    /\ pc = "parse"
    /\ input # Len(text) + 1
    /\ LET w == parseWord(text, skipWhitespace(text, input))
       IN  /\ input' = w.input
           /\ tokens' = IF w.token # Null THEN Append(tokens, w.token) ELSE tokens
    /\ UNCHANGED <<text, word, ginput, outputs, grouped, rest, frames, block, pc, error>>

\* token::parse returns and main calls parseGroups(tokens.begin(), tokens.end()).
ParseReturn ==
    /\ pc = "parse"
    /\ input = Len(text) + 1
    /\ pc' = "parseGroups"
    /\ ginput' = 1
    /\ outputs' = << <<>> >>
    /\ UNCHANGED <<text, input, tokens, word, grouped, rest, frames, block, error>>

\* main's lone call parseWord(begin, string.end()) on a string of its own.
ParseWordMain ==
    /\ pc = "parse"
    /\ input = 1
    /\ tokens = <<>>
    /\ word' = parseWord(text, 1).token
    /\ pc' = "parseWord"
    /\ UNCHANGED <<text, input, tokens, ginput, outputs, grouped, rest, frames, block, error>>

(***************************************************************************)
(* Grouper                                                                 *)
(***************************************************************************)
\* The Group put in front of the caller's output.
PushToCallerFront(x) ==
    LET n == Len(outputs)
    IN  [k \in 1..(n - 1) |-> IF k = n - 1 THEN <<x>> \o outputs[k] ELSE outputs[k]]

\* All but the innermost call, with x pushed onto the output of the caller.
PushToCaller(x) ==
    LET n == Len(outputs)
    IN  [k \in 1..(n - 1) |-> IF k = n - 1 THEN Append(outputs[k], x) ELSE outputs[k]]

\* output.push_back(x) in the innermost call.
PushToOutput(x) ==
    [outputs EXCEPT ![Len(outputs)] = Append(@, x)]

\* The first local of config::parse_block and the start of its cursor.
NewFrame(nodes) ==
    [nodes |-> nodes, input |-> 1, at |-> "ExpectName",
     d |-> [name |-> <<>>, args |-> <<>>, config |-> <<>>], output |-> <<>>]

\* The top-level parseGroups returns to main, which ignores g.rest and calls
\* config::parse_block(g.content.begin(), g.content.end()).
ReturnToMain ==
    /\ grouped' = outputs[1]
    /\ rest' = ginput
    /\ outputs' = <<>>
    /\ pc' = "parse_block"
    /\ frames' = <<NewFrame(outputs[1])>>
    /\ UNCHANGED <<ginput, error>>

\* An exception caught around the recursive call of parse_block: the caller
\* goes on with the directives the call had completed.
ThrowCaught(reason) ==
    IF Len(frames) > 1
    THEN /\ frames' = [k \in 1..(Len(frames) - 1) |->
                         IF k = Len(frames) - 1
                         THEN [frames[k] EXCEPT
                                 !.input = @ + 1,
                                 !.output = Append(@, [frames[k].d EXCEPT
                                               !.config = <<frames[Len(frames)].output>>]),
                                 !.at = "ExpectName"]
                         ELSE frames[k]]
         /\ UNCHANGED <<pc, error, outputs>>
    ELSE /\ pc' = "failed"
         /\ error' = reason
         /\ outputs' = <<>>
         /\ frames' = <<>>

\* An exception leaves main: every active call is unwound, nothing is returned.
Throw(reason) ==
    /\ pc' = "failed"
    /\ error' = reason
    /\ outputs' = <<>>
    /\ frames' = <<>>

\* The loop of parseGroups ends with input == end: the call returns. A caller
\* that is itself parseGroups pushes the Group and then throws.
GroupEnd ==
    /\ pc = "parseGroups"
    /\ ginput = Len(tokens) + 1
    /\ IF Len(outputs) = 1
       THEN ReturnToMain
       ELSE Throw(NoMatchingClosingBrace) /\ UNCHANGED <<ginput, grouped, rest>>
    /\ UNCHANGED <<text, input, tokens, word, block>>

\* *input is a ClosingBrace: break, the call returns with rest on the brace.
\* A caller that is parseGroups takes the cursor, pushes the Group, and its
\* ++input steps over the brace.
GroupClosingBrace ==
    /\ pc = "parseGroups"
    /\ ginput # Len(tokens) + 1
    /\ tokens[ginput].type = "ClosingBrace"
    /\ IF Len(outputs) = 1
       THEN ReturnToMain
       ELSE /\ outputs' = PushToCaller(Group(outputs[Len(outputs)]))
            /\ ginput' = ginput + 1
            /\ UNCHANGED <<grouped, rest, frames, pc, error>>
    /\ UNCHANGED <<text, input, tokens, word, block>>

\* The OpeningBrace pushed as a token before the call.
GroupOpeningBraceLeaks ==
    /\ pc = "parseGroups"
    /\ ginput # Len(tokens) + 1
    /\ tokens[ginput].type = "OpeningBrace"
    /\ outputs' = Append(PushToOutput(tokens[ginput]), <<>>)
    /\ ginput' = ginput + 1
    /\ UNCHANGED <<text, input, tokens, word, grouped, rest, frames, block, pc, error>>

\* *input is an OpeningBrace: parseGroups(input + 1, end) is called.
GroupOpeningBrace ==
    /\ pc = "parseGroups"
    /\ ginput # Len(tokens) + 1
    /\ tokens[ginput].type = "OpeningBrace"
    /\ outputs' = Append(outputs, <<>>)
    /\ ginput' = ginput + 1
    /\ UNCHANGED <<text, input, tokens, word, grouped, rest, frames, block, pc, error>>

\* Any other token is pushed as it is.
GroupToken ==
    /\ pc = "parseGroups"
    /\ ginput # Len(tokens) + 1
    /\ tokens[ginput].type \notin {"ClosingBrace", "OpeningBrace"}
    /\ outputs' = PushToOutput(tokens[ginput])
    /\ ginput' = ginput + 1
    /\ UNCHANGED <<text, input, tokens, word, grouped, rest, frames, block, pc, error>>

(***************************************************************************)
(* Block builder                                                           *)
(***************************************************************************)
Top == frames[Len(frames)]
AtEnd(f) == f.input = Len(f.nodes) + 1
Node(f) == f.nodes[f.input]

ReplaceTop(f) == [frames EXCEPT ![Len(frames)] = f]

\* The name step without the assignment to d.name.
DirectiveNameUnset(f) ==
    [f EXCEPT !.d = [name |-> <<>>, args |-> <<>>, config |-> <<>>],
              !.input = @ + 1,
              !.at = "ExpectArgsOrTerminator"]

\* Directive d; d.name = dynamic_cast<String &>(**input).content; d.config = 0;
\* input++. The cast to a reference throws std::bad_cast on any other token.
DirectiveName(f) ==
    [f EXCEPT !.d = [name |-> Node(f).content, args |-> <<>>, config |-> <<>>],
              !.input = @ + 1,
              !.at = "ExpectArgsOrTerminator"]

\* The Semicolon branch without its output->push_back(d).
PushDirectiveDropped(f) ==
    [f EXCEPT !.input = @ + 1, !.at = "ExpectName"]

\* input++; output->push_back(d); continue;
PushDirective(f) ==
    [f EXCEPT !.input = @ + 1, !.output = Append(@, f.d), !.at = "ExpectName"]

\* The caller's side without d.config = b.
PushBlockDirectiveNoConfig(f, b) ==
    [f EXCEPT !.input = @ + 1, !.output = Append(@, f.d), !.at = "ExpectName"]

\* The caller's side of Block *b = parse_block(...): input++; d.config = b;
\* output->push_back(d);
PushBlockDirective(f, b) ==
    [f EXCEPT !.input = @ + 1,
              !.output = Append(@, [f.d EXCEPT !.config = <<b>>]),
              !.at = "ExpectName"]

\* input == end at the top of the outer loop: return output.
BuildReturn ==
    /\ pc = "parse_block"
    /\ Top.at = "ExpectName"
    /\ AtEnd(Top)
    /\ IF Len(frames) = 1
       THEN /\ block' = <<Top.output>>
            /\ frames' = <<>>
            /\ pc' = "done"
       ELSE /\ frames' = [k \in 1..(Len(frames) - 1) |->
                            IF k = Len(frames) - 1
                            THEN PushBlockDirective(frames[k], Top.output)
                            ELSE frames[k]]
            /\ UNCHANGED <<block, pc>>
    /\ UNCHANGED <<text, input, tokens, word, ginput, outputs, grouped, rest, error>>

\* The name step with a plain pointer cast: a node that is no String is
\* stepped over.
BuildNameSkips ==
    /\ pc = "parse_block"
    /\ Top.at = "ExpectName"
    /\ ~AtEnd(Top)
    /\ IF Node(Top).type = "String"
       THEN frames' = ReplaceTop(DirectiveName(Top))
       ELSE frames' = ReplaceTop([Top EXCEPT !.input = @ + 1])
    /\ UNCHANGED <<text, input, tokens, word, ginput, outputs, grouped, rest, block, pc, error>>

\* The directive's name.
BuildName ==
    /\ pc = "parse_block"
    /\ Top.at = "ExpectName"
    /\ ~AtEnd(Top)
    /\ IF Node(Top).type = "String"
       THEN frames' = ReplaceTop(DirectiveName(Top)) /\ UNCHANGED <<outputs, pc, error>>
       ELSE Throw(BadCast)
    /\ UNCHANGED <<text, input, tokens, word, ginput, grouped, rest, block>>

\* The args loop putting each argument in front of the earlier ones.
BuildArgPrepends ==
    /\ pc = "parse_block"
    /\ Top.at = "ExpectArgsOrTerminator"
    /\ ~AtEnd(Top)
    /\ Node(Top).type = "String"
    /\ frames' = ReplaceTop([Top EXCEPT !.d.args = <<Node(Top).content>> \o @,
                                        !.input = @ + 1])
    /\ UNCHANGED <<text, input, tokens, word, ginput, outputs, grouped, rest, block, pc, error>>

\* The args loop on a String: d.args.push_back(s->content); input++.
BuildArg ==
    /\ pc = "parse_block"
    /\ Top.at = "ExpectArgsOrTerminator"
    /\ ~AtEnd(Top)
    /\ Node(Top).type = "String"
    /\ frames' = ReplaceTop([Top EXCEPT !.d.args = Append(@, Node(Top).content),
                                        !.input = @ + 1])
    /\ UNCHANGED <<text, input, tokens, word, ginput, outputs, grouped, rest, block, pc, error>>

\* The args loop taking input == end for the end of the directive.
BuildUnexpectedEndAccepts ==
    /\ pc = "parse_block"
    /\ Top.at = "ExpectArgsOrTerminator"
    /\ AtEnd(Top)
    /\ frames' = ReplaceTop([Top EXCEPT !.output = Append(@, Top.d), !.at = "ExpectName"])
    /\ UNCHANGED <<text, input, tokens, word, ginput, outputs, grouped, rest, block, pc, error>>

\* The args loop on input == end.
BuildUnexpectedEnd ==
    /\ pc = "parse_block"
    /\ Top.at = "ExpectArgsOrTerminator"
    /\ AtEnd(Top)
    /\ Throw(DirectiveUnexpectedEnd)
    /\ UNCHANGED <<text, input, tokens, word, ginput, grouped, rest, block>>

\* The dispatch taking every token that is no Group for the ';'.
BuildTerminatorLenient ==
    /\ pc = "parse_block"
    /\ Top.at = "ExpectArgsOrTerminator"
    /\ ~AtEnd(Top)
    /\ Node(Top).type # "String"
    /\ IF Node(Top).type = "Group"
       THEN frames' = Append(frames, NewFrame(Node(Top).content))
       ELSE frames' = ReplaceTop(PushDirective(Top))
    /\ UNCHANGED <<text, input, tokens, word, ginput, outputs, grouped, rest, block, pc, error>>

\* The args loop broke on a token that is no String ("Should be either ; or {").
\* The second input == end test cannot hold here: the loop breaks only with
\* input != end.
BuildTerminator ==
    /\ pc = "parse_block"
    /\ Top.at = "ExpectArgsOrTerminator"
    /\ ~AtEnd(Top)
    /\ Node(Top).type # "String"
    /\ IF Node(Top).type = "Semicolon"
       THEN frames' = ReplaceTop(PushDirective(Top)) /\ UNCHANGED <<outputs, pc, error>>
       ELSE IF Node(Top).type = "Group"
       THEN frames' = Append(frames, NewFrame(Node(Top).content))
            /\ UNCHANGED <<outputs, pc, error>>
       ELSE Throw(ExpectedSemicolonOrBrace)
    /\ UNCHANGED <<text, input, tokens, word, ginput, grouped, rest, block>>

Next ==
    \/ ParseStep
    \/ ParseReturn
    \/ ParseWordMain
    \/ GroupEnd
    \/ GroupClosingBrace
    \/ GroupOpeningBrace
    \/ GroupToken
    \/ BuildReturn
    \/ BuildName
    \/ BuildArg
    \/ BuildUnexpectedEnd
    \/ BuildTerminator

Spec == Init /\ [][Next]_vars

(***************************************************************************)
(* main's first block: a hand-built token vector handed to parseGroups.    *)
(***************************************************************************)
Strings == {<<"a">>, <<"b">>}

TokenSet == {Semicolon, OpeningBrace, ClosingBrace} \cup {String(c) : c \in Strings}

TokenVectors == UNION {[1..n -> TokenSet] : n \in 0..MaxTokens}

InitTokens ==
    /\ text = <<>>
    /\ input = 1
    /\ tokens \in TokenVectors
    /\ word = Null
    /\ ginput = 1
    /\ outputs = << <<>> >>
    /\ grouped = <<>>
    /\ rest = 0
    /\ frames = <<>>
    /\ block = <<>>
    /\ pc = "parseGroups"
    /\ error = NoError

NextTokens ==
    \/ GroupEnd
    \/ GroupClosingBrace
    \/ GroupOpeningBrace
    \/ GroupToken
    \/ BuildReturn
    \/ BuildName
    \/ BuildArg
    \/ BuildUnexpectedEnd
    \/ BuildTerminator

SpecTokens == InitTokens /\ [][NextTokens]_vars

(***************************************************************************)
(* Brace structure of a token vector, read off the vector itself.          *)
(***************************************************************************)
\* How many tokens of the given type ts holds at the positions a..b.
Count(ts, type, a, b) == Cardinality({i \in a..b : ts[i].type = type})

\* The ClosingBrace at k has no OpeningBrace left to close.
StrayAt(ts, k) ==
    /\ ts[k].type = "ClosingBrace"
    /\ Count(ts, "ClosingBrace", 1, k) > Count(ts, "OpeningBrace", 1, k)

StrayClosingBrace(ts) == \E k \in 1..Len(ts) : StrayAt(ts, k)

\* The positions j after the OpeningBrace at i where the braces of i..j balance.
Closers(ts, i) ==
    {j \in (i + 1)..Len(ts) :
        /\ ts[j].type = "ClosingBrace"
        /\ Count(ts, "OpeningBrace", i, j) = Count(ts, "ClosingBrace", i, j)}

Matched(ts, i) == ts[i].type = "OpeningBrace" /\ Closers(ts, i) # {}

MatchOf(ts, i) == CHOOSE j \in Closers(ts, i) : \A k \in Closers(ts, i) : j <= k

UnmatchedOpeningBrace(ts) ==
    \E i \in 1..Len(ts) : ts[i].type = "OpeningBrace" /\ Closers(ts, i) = {}

MatchedPairs(ts) == Cardinality({i \in 1..Len(ts) : Matched(ts, i)})

\* The i-th (1-based) position, in increasing order, of the set of positions S.
RECURSIVE Nth(_, _)
Nth(S, i) ==
    LET m == CHOOSE x \in S : \A y \in S : x <= y
    IN  IF i = 1 THEN m ELSE Nth(S \ {m}, i - 1)

(***************************************************************************)
(* Shape of a grouped tree.                                                *)
(***************************************************************************)
RECURSIVE BraceLeaf(_)
BraceLeaf(nodes) ==
    \E i \in 1..Len(nodes) :
        \/ nodes[i].type \in {"OpeningBrace", "ClosingBrace"}
        \/ nodes[i].type = "Group" /\ BraceLeaf(nodes[i].content)

\* The Group nodes of a tree, each before the Groups inside it.
RECURSIVE Groups(_)
Groups(nodes) ==
    IF nodes = <<>> THEN <<>>
    ELSE LET n == Head(nodes)
         IN  (IF n.type = "Group" THEN <<n>> \o Groups(n.content) ELSE <<>>)
             \o Groups(Tail(nodes))

\* The token vector a tree was grouped from: each Group written back as
\* '{', its content, '}'.
RECURSIVE Flatten(_)
Flatten(nodes) ==
    IF nodes = <<>> THEN <<>>
    ELSE LET n == Head(nodes)
         IN  (IF n.type = "Group"
              THEN <<OpeningBrace>> \o Flatten(n.content) \o <<ClosingBrace>>
              ELSE <<n>>)
             \o Flatten(Tail(nodes))

\* The top-level parseGroups is over, by return or by exception.
GroupingOver == pc \in {"parse_block", "done", "failed"}

\* The top-level parseGroups returned a grouped sequence to main.
GroupingReturned == rest # 0

\* The error kind the specification names for a '}' nothing opened; the
\* program has no exception for it.
UnmatchedClosingBrace == "UnmatchedClosingBrace"

\* C1: a token vector with a ClosingBrace at the top level that closes no
\* OpeningBrace makes the grouping fail with UnmatchedClosingBrace and return
\* nothing, and a grouping that returns has its cursor at the end of the vector.
C1_StrayClosingBraceFails ==
    GroupingOver =>
        /\ StrayClosingBrace(tokens) =>
              pc = "failed" /\ error = UnmatchedClosingBrace /\ ~GroupingReturned
        /\ GroupingReturned => rest = Len(tokens) + 1

\* C2: a token vector with an OpeningBrace that no ClosingBrace matches makes
\* the grouping fail with "No matching closing curly brace" and return nothing.
C2_UnmatchedOpeningBraceFails ==
    (GroupingOver /\ UnmatchedOpeningBrace(tokens)) =>
        pc = "failed" /\ error = NoMatchingClosingBrace /\ ~GroupingReturned

\* C3: a grouped sequence the grouping returned has no brace as a leaf at any
\* depth, has as many Groups as the token vector has matched brace pairs, and
\* its k-th Group holds the grouping of the tokens between the k-th such pair.
C3_GroupsAreMatchedPairs ==
    GroupingReturned =>
        /\ ~BraceLeaf(grouped)
        /\ Len(Groups(grouped)) = MatchedPairs(tokens)
        /\ \A k \in 1..Len(Groups(grouped)) :
              LET i == Nth({x \in 1..Len(tokens) : Matched(tokens, x)}, k)
              IN  Flatten(Groups(grouped)[k].content)
                      = SubSeq(tokens, i + 1, MatchOf(tokens, i) - 1)

(***************************************************************************)
(* The reference tokenization of a text, read off the text itself.         *)
(***************************************************************************)
\* The character at i is inside a comment: a '#' at or before it, with no
\* newline from that '#' up to i.
InComment(s, i) ==
    \E j \in 1..i : s[j] = "#" /\ \A k \in j..i : s[k] # "\n"

\* The character at i is part of a string literal.
InWord(s, i) ==
    /\ ~InComment(s, i)
    /\ s[i] \notin {" ", "\t", "\n", "#", ";", "{", "}"}

\* The character at i is a one-character token.
IsPunctuation(s, i) == ~InComment(s, i) /\ s[i] \in {";", "{", "}"}

\* A token starts at i.
StartsToken(s, i) ==
    \/ IsPunctuation(s, i)
    \/ InWord(s, i) /\ (i = 1 \/ ~InWord(s, i - 1))

\* The last character of the maximal run of string characters from i on.
RunEnd(s, i) ==
    CHOOSE e \in i..Len(s) :
        /\ \A k \in i..e : InWord(s, k)
        /\ e = Len(s) \/ ~InWord(s, e + 1)

TokenAt(s, i) ==
    IF s[i] = ";" THEN Semicolon
    ELSE IF s[i] = "{" THEN OpeningBrace
    ELSE IF s[i] = "}" THEN ClosingBrace
    ELSE String(SubSeq(s, i, RunEnd(s, i)))

\* The tokens that start at i or later, in the order of their first characters.
RECURSIVE RefTokensFrom(_, _)
RefTokensFrom(s, i) ==
    IF i > Len(s) THEN <<>>
    ELSE (IF StartsToken(s, i) THEN <<TokenAt(s, i)>> ELSE <<>>) \o RefTokensFrom(s, i + 1)

RefTokens(s) == RefTokensFrom(s, 1)

\* token::parse has returned: tokens is its result.
Tokenized == pc \in {"parseGroups", "parse_block", "done", "failed"}

\* C4: the token vector token::parse returns for a text is the reference
\* tokenization of the text: one token for each ';', '{', '}' outside a comment
\* and for each maximal run of other non-blank characters, in source order, and
\* nothing for blanks and comments.
C4_ParseIsReferenceTokenization ==
    Tokenized => tokens = RefTokens(text)

\* A text with a comment that ends in a newline, tokenized to two string
\* literals.
C4_Witness ==
    /\ pc = "parseGroups"
    /\ \E i, j \in 1..Len(text) : i < j /\ text[i] = "#" /\ text[j] = "\n"
    /\ Len(tokens) = 2
    /\ tokens[1].type = "String"
    /\ tokens[2].type = "String"

\* C5: no string literal is empty: neither a token of the vector token::parse
\* builds, nor the token main's lone parseWord call returns for a string that
\* starts with a blank or '#'.
C5_NoEmptyStringLiteral ==
    /\ \A i \in 1..Len(tokens) :
          tokens[i].type = "String" => tokens[i].content # <<>>
    /\ pc = "parseWord" =>
          ~(word.type = "String" /\ word.content = <<>>)

(***************************************************************************)
(* The directive grammar, read off a token vector:                         *)
(*   Block := Directive*    Directive := STRING STRING* ( ';' | '{' Block '}' ) *)
(***************************************************************************)
Balanced(ts) == ~StrayClosingBrace(ts) /\ ~UnmatchedOpeningBrace(ts)

\* Every ';' and every '{' directly follows a string, and every string is
\* directly followed by a string, a ';' or a '{'.
WellFormed(ts) ==
    /\ Balanced(ts)
    /\ \A i \in 1..Len(ts) :
          /\ ts[i].type \in {"Semicolon", "OpeningBrace"} =>
                i > 1 /\ ts[i - 1].type = "String"
          /\ ts[i].type = "String" =>
                i < Len(ts) /\ ts[i + 1].type \in {"String", "Semicolon", "OpeningBrace"}

\* How many Semicolon leaves and Groups a grouped sequence has at its top level.
TopTerminators(nodes) ==
    Cardinality({i \in 1..Len(nodes) : nodes[i].type \in {"Semicolon", "Group"}})

\* main is over: parse_block returned, or an exception left main.
PipelineOver == pc \in {"done", "failed"}

\* C6: a text whose tokens have balanced braces and follow the directive
\* grammar at every depth goes through parse, parseGroups and parse_block
\* without an exception, and the root Block has as many directives as the
\* grouped sequence has top-level Semicolon leaves and Groups.
C6_WellFormedParses ==
    (PipelineOver /\ WellFormed(tokens)) =>
        /\ pc = "done"
        /\ Len(block[1]) = TopTerminators(grouped)

\* A well-formed text with two directives, one with a block, parsed.
C6_Witness ==
    /\ pc = "done"
    /\ text # <<>>
    /\ WellFormed(tokens)
    /\ Len(block[1]) = 2
    /\ \E i \in 1..2 : block[1][i].config # <<>>

(***************************************************************************)
(* Where the innermost parse_block call stands, read off its nodes and     *)
(* its cursor.                                                             *)
(***************************************************************************)
\* The call is about to read a directive's name: nothing is consumed yet, or
\* the node last consumed ended a directive.
ExpectsName(f) ==
    f.input = 1 \/ f.nodes[f.input - 1].type \in {"Semicolon", "Group"}

\* The call reached the end of its sequence right after a string: a name and
\* its arguments with nothing to end the directive.
EndsInDirective(f) ==
    /\ f.input = Len(f.nodes) + 1
    /\ f.nodes # <<>>
    /\ f.nodes[Len(f.nodes)].type = "String"

\* C7: when parse_block is about to read a directive's name and the node at
\* the cursor is no String (a Semicolon or a Group), the parse ends at once
\* with the std::bad_cast of the name's cast (the program's
\* ExpectedDirectiveName): the node is not skipped, no directive is made of it
\* and no Block is returned.
C7_ExpectNameRejects ==
    [][(/\ pc = "parse_block"
        /\ ExpectsName(Top)
        /\ Top.input # Len(Top.nodes) + 1
        /\ Top.nodes[Top.input].type # "String")
       => (pc' = "failed" /\ error' = BadCast /\ frames' = <<>> /\ block' = <<>>)]_vars

\* 'a ; ;' or 'a ; { }' failed on its third node.
C7_Witness ==
    /\ pc = "failed"
    /\ error = BadCast
    /\ Len(grouped) = 3
    /\ grouped[1].type = "String"
    /\ grouped[2].type = "Semicolon"
    /\ grouped[3].type \in {"Semicolon", "Group"}

\* C8: when a sequence parse_block reads (the top-level one or the content of
\* a Group) ends after a name and its arguments, the parse ends at once with
\* "parse_block: directive: unexpected end of input" (UnterminatedDirective)
\* and the directive is in no Block: none is returned.
C8_UnterminatedDirectiveFails ==
    [][(pc = "parse_block" /\ EndsInDirective(Top))
       => (/\ pc' = "failed"
           /\ error' = DirectiveUnexpectedEnd
           /\ frames' = <<>>
           /\ block' = <<>>)]_vars

\* A directive left unterminated inside a block, as in 'a { b }'.
C8_Witness ==
    /\ pc = "failed"
    /\ error = DirectiveUnexpectedEnd
    /\ block = <<>>
    /\ grouped # <<>>
    /\ grouped[Len(grouped)].type = "Group"

(***************************************************************************)
(* A Block against the grouped sequence it was built from.                 *)
(***************************************************************************)
IsTerminator(n) == n.type \in {"Semicolon", "Group"}

\* The nodes that end the directives of a sequence, in order.
Terminators(nodes) == SelectSeq(nodes, IsTerminator)

\* The i-th directive of b has no body when the i-th terminator is a
\* Semicolon, and a body built from the Group's content when it is a Group.
RECURSIVE BodiesMatch(_, _)
BodiesMatch(b, nodes) ==
    LET t == Terminators(nodes)
    IN  /\ Len(b) = Len(t)
        /\ \A i \in 1..Len(b) :
              IF t[i].type = "Semicolon"
              THEN b[i].config = <<>>
              ELSE /\ Len(b[i].config) = 1
                   /\ BodiesMatch(b[i].config[1], t[i].content)
                   /\ t[i].content = <<>> => b[i].config[1] = <<>>

\* C9: in the Block parse_block returns, at every depth, a directive ended by
\* a Semicolon has no body (config is null) and a directive ended by a Group
\* has one (config points to the Block of the Group's content, an empty Block
\* for empty braces).
C9_BodyIffGroup ==
    pc = "done" => BodiesMatch(block[1], grouped)

\* A directive with a body that holds a directive without one, as in
\* 'a { b ; }'.
C9_Witness ==
    /\ pc = "done"
    /\ \E i \in 1..Len(block[1]) :
          /\ block[1][i].config # <<>>
          /\ \E j \in 1..Len(block[1][i].config[1]) :
                block[1][i].config[1][j].config = <<>>

\* x is the text of a string literal of the token vector: not empty, and free
\* of blanks, '#', ';', '{' and '}'.
IsStringText(x) ==
    /\ x # <<>>
    /\ \A k \in 1..Len(x) : x[k] \notin {" ", "\t", "\n", "#", ";", "{", "}"}
    /\ \E i \in 1..Len(tokens) : tokens[i].type = "String" /\ tokens[i].content = x

RECURSIVE NamesAndArgsAreStrings(_)
NamesAndArgsAreStrings(b) ==
    \A i \in 1..Len(b) :
        /\ IsStringText(b[i].name)
        /\ \A k \in 1..Len(b[i].args) : IsStringText(b[i].args[k])
        /\ b[i].config # <<>> => NamesAndArgsAreStrings(b[i].config[1])

\* C10: in the Block the pipeline returns for a text, every directive at every
\* depth has a non-empty name, and its name and each of its args is the text
\* of a string literal of the input: never empty, never a ';', '{' or '}'.
C10_NamesAndArgsAreStrings ==
    pc = "done" => NamesAndArgsAreStrings(block[1])

\* A directive with an argument after its name, as in 'a b;'.
C10_Witness ==
    /\ pc = "done"
    /\ text # <<>>
    /\ block[1] # <<>>
    /\ block[1][1].args # <<>>
    /\ block[1][1].args[1] # block[1][1].name

\* C11: a text whose token vector has an unmatched brace fails in parseGroups:
\* parse_block is never called on it, and the exception that ends main is "No
\* matching closing curly brace", never one of parse_block's.
C11_UnmatchedBraceFailsInGrouper ==
    (Tokenized /\ ~Balanced(tokens)) =>
        /\ pc \notin {"parse_block", "done"}
        /\ frames = <<>>
        /\ pc = "failed" => error = NoMatchingClosingBrace

\* C12: an exception thrown at any depth of parseGroups or parse_block ends
\* main at once with nothing returned (no Block, and no grouped sequence when
\* parseGroups threw) and no call left to resume; a Block is returned only when
\* the tokens parseGroups read hold no grammar error at any depth, so the
\* directives completed before an error are never returned.
C12_ErrorsAbortTheParse ==
    /\ pc = "failed" =>
          /\ block = <<>>
          /\ frames = <<>>
          /\ outputs = <<>>
          /\ error = NoMatchingClosingBrace => (~GroupingReturned /\ grouped = <<>>)
          /\ ~ENABLED Next
    /\ pc = "done" => WellFormed(SubSeq(tokens, 1, rest - 1))

\* 'a ; a { b }': a directive is complete when the error inside the block of
\* the next one ends the parse.
C12_Witness ==
    /\ pc = "failed"
    /\ error = DirectiveUnexpectedEnd
    /\ block = <<>>
    /\ Len(grouped) >= 3
    /\ grouped[2].type = "Semicolon"
    /\ grouped[Len(grouped)].type = "Group"

\* The text holds nothing but blanks and comments.
OnlyBlanksAndComments(s) ==
    \A i \in 1..Len(s) : s[i] \in {" ", "\t", "\n"} \/ InComment(s, i)

\* C13: every stage maps empty input to an empty result without an exception:
\* token::parse returns no token for the empty text and for a text of blanks and
\* comments only, parseGroups returns the empty sequence for the empty token
\* vector, and parse_block returns an empty Block for the empty sequence.
C13_EmptyInEmptyOut ==
    /\ (Tokenized /\ OnlyBlanksAndComments(text)) => tokens = <<>>
    /\ (GroupingOver /\ tokens = <<>>) =>
          (pc # "failed" /\ GroupingReturned /\ grouped = <<>>)
    /\ (PipelineOver /\ GroupingReturned /\ grouped = <<>>) =>
          (pc = "done" /\ error = NoError /\ block = << <<>> >>)

\* A text of blanks and a comment, parsed to an empty Block.
C13_Witness ==
    /\ pc = "done"
    /\ OnlyBlanksAndComments(text)
    /\ \E i, j \in 1..Len(text) : text[i] = "#" /\ text[j] \in {" ", "\t", "\n"}
    /\ tokens = <<>>
    /\ grouped = <<>>
    /\ block = << <<>> >>

\* The cursor at which the step that throws detects its error: the index into
\* the token vector in parseGroups, into the innermost sequence in parse_block.
DetectedAt == IF pc = "parseGroups" THEN ginput ELSE Top.input

\* Where the shortest failing vector of each kind is detected: '{' at its end,
\* ';' at its first node, 'a' at its end.
ShortestFailureAt(e) == IF e = BadCast THEN 1 ELSE 2

\* C14: the value of an error tells where the error was detected, so a failure
\* has the value of the shortest failure of its kind only when it is detected
\* at the same position.
C14_ErrorCarriesPosition ==
    [][pc' = "failed" => DetectedAt = ShortestFailureAt(error')]_vars

(***************************************************************************)
(* A Block written back as a grouped sequence.                             *)
(***************************************************************************)
\* The strings of args as String leaves, in order.
ArgLeaves(args) == [k \in 1..Len(args) |-> String(args[k])]

\* Each directive as its name, its args, and ';' or the Group of its body.
RECURSIVE Unparse(_)
Unparse(b) ==
    IF b = <<>> THEN <<>>
    ELSE LET d == Head(b)
         IN  <<String(d.name)>> \o ArgLeaves(d.args)
             \o (IF d.config = <<>> THEN <<Semicolon>> ELSE <<Group(Unparse(d.config[1]))>>)
             \o Unparse(Tail(b))

\* C15: the Block parse_block returns is the in-order reading of the grouped
\* sequence: writing each directive back as its name, its args in order, then
\* ';' when it has no body or the Group of its body written back the same way,
\* gives the grouped sequence again.
C15_BlockReadsInOrder ==
    pc = "done" => Unparse(block[1]) = grouped

\* 'a a b { }' or the like: a directive with two different args and a body.
C15_Witness ==
    /\ pc = "done"
    /\ \E i \in 1..Len(block[1]) :
          /\ Len(block[1][i].args) = 2
          /\ block[1][i].args[1] # block[1][i].args[2]
          /\ block[1][i].config # <<>>

(***************************************************************************)
(* config::parse_block called on a vector of Token * of the caller's own   *)
(* making: any Token may be in it, a raw brace included.                   *)
(***************************************************************************)
\* Longest vector handed to parse_block.
MaxNodes == 3

NodeSet == TokenSet \cup {Group(<<>>), Group(<<String(<<"a">>), OpeningBrace>>)}

NodeVectors == UNION {[1..n -> NodeSet] : n \in 0..MaxNodes}

InitNodes ==
    /\ text = <<>>
    /\ input = 1
    /\ tokens = <<>>
    /\ word = Null
    /\ ginput = 0
    /\ outputs = <<>>
    /\ grouped \in NodeVectors
    /\ rest = 0
    /\ frames = <<NewFrame(grouped)>>
    /\ block = <<>>
    /\ pc = "parse_block"
    /\ error = NoError

NextNodes ==
    \/ BuildReturn
    \/ BuildName
    \/ BuildArg
    \/ BuildUnexpectedEnd
    \/ BuildTerminator

SpecNodes == InitNodes /\ [][NextNodes]_vars

\* C16: when parse_block has read a directive's name and args and the node at
\* the cursor is a raw OpeningBrace or ClosingBrace, the parse ends at once
\* with "parse_block: directive: expected ; or {" (ExpectedTerminatorOrBlock):
\* the directive is appended nowhere and no Block is returned.
C16_RawBraceAfterArgsFails ==
    [][(/\ pc = "parse_block"
        /\ ~ExpectsName(Top)
        /\ Top.input # Len(Top.nodes) + 1
        /\ Top.nodes[Top.input].type \in {"OpeningBrace", "ClosingBrace"})
       => (/\ pc' = "failed"
           /\ error' = ExpectedSemicolonOrBrace
           /\ frames' = <<>>
           /\ block' = <<>>)]_vars

\* A name, an argument, then a raw brace.
C16_Witness ==
    /\ pc = "failed"
    /\ error = ExpectedSemicolonOrBrace
    /\ block = <<>>
    /\ Len(grouped) = 3
    /\ grouped[1].type = "String"
    /\ grouped[2].type = "String"
    /\ grouped[3].type \in {"OpeningBrace", "ClosingBrace"}

\* C17: in the pipeline from a text, parse_block never throws "parse_block:
\* directive: expected ; or {": no sequence it is called on, at any depth,
\* holds a raw brace, so the node after a name and its args is a Semicolon, a
\* Group or the end of the sequence.
C17_ExpectedTerminatorUnreachable ==
    /\ error # ExpectedSemicolonOrBrace
    /\ ~BraceLeaf(grouped)
    /\ \A k \in 1..Len(frames) : ~BraceLeaf(frames[k].nodes)

\* parse_block of a text stands after a name and an argument, on a Group.
C17_Witness ==
    /\ pc = "parse_block"
    /\ text # <<>>
    /\ Top.at = "ExpectArgsOrTerminator"
    /\ Top.input = 3
    /\ Len(Top.nodes) >= 3
    /\ Top.nodes[3].type = "Group"

(***************************************************************************)
(* The active calls of parseGroups, read off the token vector and the      *)
(* cursor.                                                                 *)
(***************************************************************************)
\* The OpeningBraces before the cursor that nothing before the cursor closes:
\* each started a call that has not returned.
OpenCalls ==
    {i \in 1..(ginput - 1) :
        /\ tokens[i].type = "OpeningBrace"
        /\ \A j \in Closers(tokens, i) : j >= ginput}

\* The OpeningBrace that started the innermost call.
InnermostOpen == CHOOSE i \in OpenCalls : \A k \in OpenCalls : k <= i

\* C18: grouping a balanced token vector loses and reorders nothing: the
\* grouped sequence written back with '{' and '}' around the content of each
\* Group is the token vector, the top-level cursor ends at its end, and a
\* recursive call returns with the cursor on the ClosingBrace that matches the
\* OpeningBrace that started it, which the caller steps over by exactly one.
C18_GroupingLosesNothing ==
    [][/\ (GroupingReturned' /\ Balanced(tokens)) =>
             (Flatten(grouped') = tokens /\ rest' = Len(tokens) + 1)
       /\ (/\ pc = "parseGroups"
           /\ pc' = "parseGroups"
           /\ Balanced(tokens)
           /\ Len(outputs') < Len(outputs)) =>
             /\ Cardinality(OpenCalls) = Len(outputs) - 1
             /\ tokens[ginput].type = "ClosingBrace"
             /\ ginput = MatchOf(tokens, InnermostOpen)
             /\ ginput' = ginput + 1
             /\ Len(outputs') = Len(outputs) - 1]_vars

\* '{ { a } } b' or the like grouped: a Group in a Group, then a token.
C18_Witness ==
    /\ GroupingReturned
    /\ Balanced(tokens)
    /\ Len(grouped) = 2
    /\ grouped[1].type = "Group"
    /\ grouped[2].type = "String"
    /\ grouped[1].content # <<>>
    /\ grouped[1].content[1].type = "Group"
    /\ grouped[1].content[1].content # <<>>

(***************************************************************************)
(* What is left to do, as a number that every step lowers.                 *)
(***************************************************************************)
\* The steps parse_block spends on a sequence: one for each leaf, and for a
\* Group one for the call, one for the return, and those of its content.
RECURSIVE Cost(_)
Cost(nodes) ==
    IF nodes = <<>> THEN 0
    ELSE (IF Head(nodes).type = "Group" THEN 2 + Cost(Head(nodes).content) ELSE 1)
         + Cost(Tail(nodes))

\* What the k-th active call of parse_block has left: the innermost call its
\* nodes from the cursor on, a caller the return of the call it waits for and
\* its nodes after the cursor.
FrameCost(k) ==
    LET f == frames[k]
    IN  IF k = Len(frames)
        THEN Cost(SubSeq(f.nodes, f.input, Len(f.nodes)))
        ELSE 1 + Cost(SubSeq(f.nodes, f.input + 1, Len(f.nodes)))

RECURSIVE CostUpTo(_)
CostUpTo(k) == IF k = 0 THEN 0 ELSE FrameCost(k) + CostUpTo(k - 1)

BuildMeasure == CostUpTo(Len(frames))

\* The stages of main in their order.
StageRank(p) ==
    CASE p = "parse" -> 1
      [] p = "parseGroups" -> 2
      [] p = "parse_block" -> 3
      [] OTHER -> 4

Running == pc \in {"parse", "parseGroups", "parse_block"}

\* C19: the pipeline ends on every text, with a result or an exception: while
\* it runs a step is always possible and no stage is entered again; an
\* iteration of token::parse calls parseWord only at the end of the text or at
\* a character that is no blank and no '#', and moves its cursor forward; a
\* step of parseGroups moves its cursor forward by one; a step of parse_block
\* moves the cursor of the innermost call forward by one, or calls on the
\* content of the Group at the cursor, or returns and moves the caller's
\* cursor by one, and lowers the count of the steps left.
C19_PipelineTerminates ==
    /\ [](Running => ENABLED Next)
    /\ [][/\ StageRank(pc') >= StageRank(pc)
          /\ (pc = "parse" /\ pc' = "parse") =>
                /\ LET p == skipWhitespace(text, input)
                   IN  p = Len(text) + 1 \/ text[p] \notin {" ", "\t", "\n", "#"}
                /\ input' > input
                /\ input' <= Len(text) + 1
          /\ (pc = "parseGroups" /\ pc' = "parseGroups") =>
                /\ ginput' = ginput + 1
                /\ ginput' <= Len(tokens) + 1
          /\ (pc = "parse_block" /\ pc' = "parse_block") =>
                /\ BuildMeasure' < BuildMeasure
                /\ BuildMeasure' >= 0
                /\ Len(frames') = Len(frames) =>
                      (Top'.nodes = Top.nodes /\ Top'.input = Top.input + 1)
                /\ Len(frames') > Len(frames) =>
                      (Top'.nodes = Node(Top).content /\ Top'.input = 1)
                /\ Len(frames') < Len(frames) =>
                      Top'.input = frames[Len(frames) - 1].input + 1]_vars

\* A text with a comment and a block, parsed to its end.
C19_Witness ==
    /\ pc = "done"
    /\ \E i \in 1..Len(text) : text[i] = "#"
    /\ block[1] # <<>>
    /\ block[1][1].config # <<>>

====
